---- MODULE Spec2Model ----
(***************************************************************************)
(* Stremer Windows client: the progressive folder-listing pipeline         *)
(* (api/client.py stream_files, file_browser/browser_widget.py             *)
(* FileLoaderThread and BrowserWidget) and the thumbnail scheduler.        *)
(*                                                                         *)
(* The specifications share the module's variables; each one moves its     *)
(* own group and leaves the others at their initial value:                 *)
(*   Spec        the controller, its loader threads and the UI event queue *)
(*   SpecPaging  the same with every session run to completion             *)
(*   SpecStream  APIClient.stream_files run on one stream of lines         *)
(*   SpecThumb   the thumbnail scheduler                                   *)
(*   SpecSort    BrowserWidget._sort_items                                 *)
(*   SpecNav     navigation, search and the history stacks                 *)
(*   SpecResort  sort changes over a listing or a held search result       *)
(*   SpecFailing sessions whose stream reports an error or fails           *)
(*   SpecFilter  searches made while a session is streaming                *)
(*   SpecLogout  logout and login around running sessions                  *)
(*   SpecSaved   the scheduler with images edited and saved in the viewer  *)
(*   SpecEmit    the signals the loader threads emit, nothing delivered    *)
(*   SpecPagingFails  the paged view with failing streams                  *)
(*   SpecThumbFair    the scheduler of one folder, every fetch ends        *)
(*   SpecLive    refreshes with a fair event loop and loader thread        *)
(***************************************************************************)
EXTENDS Integers, Sequences, FiniteSets, TLC

\* ------------------------------------------------------------------ bounds
\* The code's page sizes are 100 (browser_widget.py:137 and :525) and its
\* batch size is 10 (browser_widget.py:40).  The model keeps the three
\* quantities apart and scales them down, so that a page fills and a batch
\* fills within MaxItems entries; the batch size of a behaviour is any of
\* 1..MaxBatchSize.
MaxItems == 4
InitialLoadLimit == 3
LoadMoreLimit == 3
MaxBatchSize == 3
\* Lines of a response handed to stream_files, and the largest max_items.
MaxLines == 4
MaxLimit == 3
\* Thumbnail keys (path, width, height) in play.  The code's cap on
\* concurrent fetches is 32 (browser_widget.py:977); the model scales it
\* down so that NumKeys requests exceed it.
NumKeys == 5
MaxConcurrent == 2
\* Entries of a list handed to _sort_items.
MaxSortLen == 3
\* Entries of the folders of the navigation specification.
NavFolder == 2
\* Listing sessions (FileLoaderThread objects) created in one behaviour, and
\* the last session number load_path may start (the later ones are load-more
\* sessions); the paging specification lists folders of up to MaxFolder
\* entries.
MaxSessions == 3
MaxLoadPathSessions == 2
MaxFolder == 8

VARIABLES
    \* --- the server and the loader threads ---
    folderSize,     \* entries of the folder on the server; entry i is the i-th in server order
    batchSize,      \* FileLoaderThread._batch_size
    threads,        \* FileLoaderThread objects, by session number
    nThreads,       \* sessions created so far
    \* --- BrowserWidget ---
    loaderThread,   \* self._loader_thread (0: None)
    uiQueue,        \* signals posted to the UI thread's event queue, not yet delivered
    allLoaded,      \* self._all_loaded_items; each entry remembers the session that produced it
    isLoading,      \* self._is_loading
    loadComplete,   \* self._load_complete
    hasMoreItems,   \* self._has_more_items
    viewMode,       \* self.view_mode
    viewShown,      \* the view widget of the current mode (table or icon list) is visible
    loadingLabel,   \* self.loading_label: "hidden", "loading" or "error" (an error text)
    currentPath,    \* self.current_path, a string as the sequence of its characters
    backStack,      \* self._back_stack
    forwardStack,   \* self._forward_stack
    \* --- one call of APIClient.stream_files ---
    sfLines,        \* the response's lines, by kind: "item", "error", "bad", "blank"
    sfMax,          \* max_items (0: None)
    sfHasCallback,  \* on_item_callback is not None
    sfPc,           \* "loop": in the for loop; "done": returned
    sfPos,          \* lines read
    sfCount,        \* items_count
    sfError,        \* error: "none", "server" (an error line), "transport" (an exception)
    sfHasMore,      \* has_more
    sfCalls,        \* the callback's invocations: <<line number, value returned>>
    \* --- the thumbnail scheduler (BrowserWidget, thumbnails view) ---
    thumbCache,     \* keys of self._thumb_cache
    thumbInflight,  \* self._thumb_inflight
    thumbPending,   \* self._thumb_pending; each entry remembers whether it was queued as visible
    thumbActive,    \* self._thumb_active
    netReplies,     \* QNetworkReply objects not finished yet: how many per key
    iconItems,      \* keys (paths) of the file items of self.icon_list in the thumbnails view
    iconSet,        \* keys whose displayed items show a thumbnail, not the generic icon
    lastOp,         \* the scheduler's latest handler run: what it was and which fetches it started
    \* --- sorting (BrowserWidget) ---
    sortField,      \* self.sort_field
    sortAscending,  \* self.sort_ascending
    searchItems,    \* self._last_search_items (<<>> when None)
    searchHeld,     \* self._last_search_items is not None
    rendered        \* the rows of the view, top to bottom

displayVars == <<viewShown, loadingLabel>>

navVars == <<currentPath, backStack, forwardStack>>

listVars == <<folderSize, batchSize, threads, nThreads, loaderThread, uiQueue, allLoaded,
              isLoading, loadComplete, hasMoreItems, viewMode, displayVars, navVars>>

streamVars == <<sfLines, sfMax, sfHasCallback, sfPc, sfPos, sfCount, sfError,
                sfHasMore, sfCalls>>

thumbVars == <<thumbCache, thumbInflight, thumbPending, thumbActive, netReplies,
               iconItems, iconSet, lastOp>>

sortVars == <<sortField, sortAscending, searchItems, searchHeld, rendered>>

vars == <<listVars, streamVars, thumbVars, sortVars>>

notList == <<streamVars, thumbVars, sortVars>>

notStream == <<listVars, thumbVars, sortVars>>

notThumb == <<listVars, streamVars, sortVars>>

notSort == <<listVars, streamVars, thumbVars>>

Keys == 1..NumKeys

\* The path "/" (browser_widget.py:116): a string is the sequence of its
\* characters.
Root == <<"/">>

\* The groups a specification does not move stay at these values.
StreamIdle ==
    /\ sfLines = <<>>
    /\ sfMax = 0
    /\ sfHasCallback = FALSE
    /\ sfPc = "done"
    /\ sfPos = 0
    /\ sfCount = 0
    /\ sfError = "none"
    /\ sfHasMore = FALSE
    /\ sfCalls = <<>>

ThumbIdle ==
    /\ thumbCache = {}
    /\ thumbInflight = {}
    /\ thumbPending = <<>>
    /\ thumbActive = 0
    /\ netReplies = [k \in Keys |-> 0]
    /\ iconItems = {}
    /\ iconSet = {}
    /\ lastOp = [op |-> "none", key |-> 0, outcome |-> "none", started |-> <<>>]

SortIdle ==
    /\ sortField = "name"
    /\ sortAscending = TRUE
    /\ searchItems = <<>>
    /\ searchHeld = FALSE
    /\ rendered = <<>>

Min(a, b) == IF a < b THEN a ELSE b

Max(a, b) == IF a > b THEN a ELSE b

\* ------------------------------------------------------------------ server
\* GET /files?path&offset&limit of a server that honours offset and limit:
\* the entries offset+1 .. offset+limit of the folder, in server order.
ServerLines(offset, limit) ==
    [i \in 1..Max(0, Min(folderSize - offset, limit)) |-> offset + i]

\* ------------------------------------------------------- FileLoaderThread
NoThread ==
    [pc |-> "none", cancelled |-> FALSE, batch |-> <<>>, total |-> 0,
     limit |-> 0, offset |-> 0, pos |-> 0, count |-> 0,
     error |-> FALSE, has_more |-> FALSE]

\* FileLoaderThread.__init__ followed by start(): run() is about to call
\* stream_files.
NewThread(limit, offset) ==
    [pc |-> "item", cancelled |-> FALSE, batch |-> <<>>, total |-> 0,
     limit |-> limit, offset |-> offset, pos |-> 0, count |-> 0,
     error |-> FALSE, has_more |-> FALSE]

\* QThread.isRunning(): run() was entered and has not returned.
IsRunning(s) == threads[s].pc \notin {"none", "done"}

Sessions == 1..MaxSessions

\* stream_files after the callback returned `result` for the item that made
\* items_count `count`: the callback's stop request, then the max_items cap.
\* `result` is "True", "False" or "None"; only `result is False` stops.
\* Gives <<has_more, break>>.
AfterCallbackUncapped(result, count, max_items) ==
    IF result = "False" THEN <<TRUE, TRUE>> ELSE <<FALSE, FALSE>>

AfterCallbackIgnoresResult(result, count, max_items) ==
    IF max_items # 0 /\ count >= max_items THEN <<TRUE, TRUE>> ELSE <<FALSE, FALSE>>

AfterCallbackStopsSilently(result, count, max_items) ==
    IF result = "False" THEN <<FALSE, TRUE>>
    ELSE IF max_items # 0 /\ count >= max_items THEN <<TRUE, TRUE>>
    ELSE <<FALSE, FALSE>>

AfterCallback(result, count, max_items) ==
    IF result = "False" THEN <<TRUE, TRUE>>
    ELSE IF max_items # 0 /\ count >= max_items THEN <<TRUE, TRUE>>
    ELSE <<FALSE, FALSE>>

\* _on_item from its limit check on (lines 64-68): the callback's result.
OnItemResult(total, limit) == IF total >= limit THEN "False" ELSE "True"

\* The thread after _on_item has handled its batch: the callback returns to
\* stream_files, which breaks out of its loop or reads the next line.
Resume(t) ==
    LET r == AfterCallback(OnItemResult(t.total, t.limit), t.count, t.limit)
    IN  IF r[2] THEN [t EXCEPT !.has_more = r[1], !.pc = "post"]
        ELSE [t EXCEPT !.pc = "item"]

\* _emit_batch's guard (line 48).
MayEmit(t) == t.batch # <<>> /\ ~t.cancelled

\* stream_files reads the next line of the response, an item, and calls
\* _on_item, which runs up to its call of _emit_batch.
ThreadItem(s) ==
    LET t == threads[s]
        lines == ServerLines(t.offset, t.limit)
    IN  /\ t.pc = "item"
        /\ t.pos < Len(lines)
        /\ LET t1 == [t EXCEPT !.pos = @ + 1, !.count = @ + 1]
           IN  IF t.cancelled
               THEN \* _on_item returns False at once
                    threads' = [threads EXCEPT ![s] =
                        [t1 EXCEPT !.has_more = AfterCallback("False", t1.count, t.limit)[1],
                                   !.pc = "post"]]
               ELSE LET t2 == [t1 EXCEPT !.total = @ + 1,
                                         !.batch = Append(@, lines[t.pos + 1])]
                    IN  threads' = [threads EXCEPT ![s] =
                            IF Len(t2.batch) >= batchSize
                            THEN [t2 EXCEPT !.pc = "emit_chk"]
                            ELSE Resume(t2)]
        /\ UNCHANGED <<notList, folderSize, batchSize, nThreads, loaderThread, uiQueue, allLoaded,
                       isLoading, loadComplete, hasMoreItems, viewMode, displayVars, navVars>>

\* The response ends: stream_files leaves its loop with has_more False.
ThreadStreamEnd(s) ==
    LET t == threads[s]
    IN  /\ t.pc = "item"
        /\ t.pos = Len(ServerLines(t.offset, t.limit))
        /\ threads' = [threads EXCEPT ![s] = [t EXCEPT !.pc = "post"]]
        /\ UNCHANGED <<notList, folderSize, batchSize, nThreads, loaderThread, uiQueue, allLoaded,
                       isLoading, loadComplete, hasMoreItems, viewMode, displayVars, navVars>>

\* requests raises (timeout, connection reset): stream_files catches it,
\* sets error and returns.
ThreadStreamFails(s) ==
    LET t == threads[s]
    IN  /\ t.pc = "item"
        /\ ~t.error
        /\ threads' = [threads EXCEPT ![s] = [t EXCEPT !.error = TRUE, !.pc = "post"]]
        /\ UNCHANGED <<notList, folderSize, batchSize, nThreads, loaderThread, uiQueue, allLoaded,
                       isLoading, loadComplete, hasMoreItems, viewMode, displayVars, navVars>>

\* stream_files reads a line with an error field: the error is kept and the
\* loop goes on (client.py:65-66).
ThreadErrorLine(s) ==
    LET t == threads[s]
    IN  /\ t.pc = "item"
        /\ ~t.error
        /\ threads' = [threads EXCEPT ![s] = [t EXCEPT !.error = TRUE]]
        /\ UNCHANGED <<notList, folderSize, batchSize, nThreads, loaderThread, uiQueue, allLoaded,
                       isLoading, loadComplete, hasMoreItems, viewMode, displayVars, navVars>>

\* _emit_batch, called by _on_item: the guard of line 48.
ThreadEmitCheck(s) ==
    LET t == threads[s]
    IN  /\ t.pc = "emit_chk"
        /\ threads' = [threads EXCEPT ![s] =
               IF MayEmit(t) THEN [t EXCEPT !.pc = "emit"] ELSE Resume(t)]
        /\ UNCHANGED <<notList, folderSize, batchSize, nThreads, loaderThread, uiQueue, allLoaded,
                       isLoading, loadComplete, hasMoreItems, viewMode, displayVars, navVars>>

\* The batch a thread emits and what is left in its buffer (lines 49-50).
EmittedBatch(t) == t.batch

FlushesNothing(t) == FALSE

BatchAfterEmit(t) == <<>>

ItemsMsg(s, items) == [kind |-> "items", sid |-> s, items |-> items, has_more |-> FALSE]

CompleteMsg(s, has_more) == [kind |-> "complete", sid |-> s, items |-> <<>>, has_more |-> has_more]

ErrorMsg(s) == [kind |-> "error", sid |-> s, items |-> <<>>, has_more |-> FALSE]

\* items_received.emit(batch copy); batch.clear(): the signal is queued to
\* the UI thread, the receiver's thread.
ThreadEmit(s) ==
    LET t == threads[s]
    IN  /\ t.pc = "emit"
        /\ uiQueue' = Append(uiQueue, ItemsMsg(s, EmittedBatch(t)))
        /\ threads' = [threads EXCEPT ![s] = Resume([t EXCEPT !.batch = BatchAfterEmit(t)])]
        /\ UNCHANGED <<notList, folderSize, batchSize, nThreads, loaderThread, allLoaded,
                       isLoading, loadComplete, hasMoreItems, viewMode, displayVars, navVars>>

\* run() after stream_files returned: `if self._cancelled: return` (line 80).
ThreadPost(s) ==
    LET t == threads[s]
    IN  /\ t.pc = "post"
        /\ threads' = [threads EXCEPT ![s] =
               [t EXCEPT !.pc = IF t.cancelled THEN "done" ELSE "final_chk"]]
        /\ UNCHANGED <<notList, folderSize, batchSize, nThreads, loaderThread, uiQueue, allLoaded,
                       isLoading, loadComplete, hasMoreItems, viewMode, displayVars, navVars>>

\* Whether run() flushes the buffered items (line 84, the guard of line 48).
FlushesRemaining(t) == MayEmit(t)

ThreadFinalCheck(s) ==
    LET t == threads[s]
    IN  /\ t.pc = "final_chk"
        /\ threads' = [threads EXCEPT ![s] =
               [t EXCEPT !.pc = IF FlushesRemaining(t) THEN "final_emit" ELSE "err_chk"]]
        /\ UNCHANGED <<notList, folderSize, batchSize, nThreads, loaderThread, uiQueue, allLoaded,
                       isLoading, loadComplete, hasMoreItems, viewMode, displayVars, navVars>>

ThreadFinalEmit(s) ==
    LET t == threads[s]
    IN  /\ t.pc = "final_emit"
        /\ uiQueue' = Append(uiQueue, ItemsMsg(s, EmittedBatch(t)))
        /\ threads' = [threads EXCEPT ![s] =
               [t EXCEPT !.batch = BatchAfterEmit(t), !.pc = "err_chk"]]
        /\ UNCHANGED <<notList, folderSize, batchSize, nThreads, loaderThread, allLoaded,
                       isLoading, loadComplete, hasMoreItems, viewMode, displayVars, navVars>>

PcAfterErrCheckSilent(t) == "done"

PcAfterErrCheckNoReturn(t) == IF t.cancelled THEN "done" ELSE "lc_emit"

\* Where run() goes from line 86: it returns after error.emit (line 89);
\* without an error it reads the cancelled flag (line 91).
PcAfterErrCheck(t) ==
    IF t.error THEN "done" ELSE IF t.cancelled THEN "done" ELSE "lc_emit"

\* Lines 86-92: an error is emitted and run() returns; otherwise the
\* cancelled flag is read once more before load_complete is emitted.
ThreadErrCheck(s) ==
    LET t == threads[s]
    IN  /\ t.pc = "err_chk"
        /\ uiQueue' = IF t.error THEN Append(uiQueue, ErrorMsg(s)) ELSE uiQueue
        /\ threads' = [threads EXCEPT ![s] = [t EXCEPT !.pc = PcAfterErrCheck(t)]]
        /\ UNCHANGED <<notList, folderSize, batchSize, nThreads, loaderThread, allLoaded,
                       isLoading, loadComplete, hasMoreItems, viewMode, displayVars, navVars>>

ThreadLoadComplete(s) ==
    LET t == threads[s]
    IN  /\ t.pc = "lc_emit"
        /\ uiQueue' = Append(uiQueue, CompleteMsg(s, t.has_more))
        /\ threads' = [threads EXCEPT ![s] = [t EXCEPT !.pc = "done"]]
        /\ UNCHANGED <<notList, folderSize, batchSize, nThreads, loaderThread, allLoaded,
                       isLoading, loadComplete, hasMoreItems, viewMode, displayVars, navVars>>

\* ---------------------------------------------------------- BrowserWidget
CancelExistingSkipped == threads

\* "Cancel any existing loader thread": cancel() of the thread the widget
\* holds, when it is running (quit() and wait(100) change no state of it).
CancelExisting ==
    IF loaderThread # 0 /\ IsRunning(loaderThread)
    THEN [threads EXCEPT ![loaderThread].cancelled = TRUE]
    ELSE threads

\* load_path(path) with an API client (lines 388-445): the running thread
\* is cancelled, the collection and the search state are reset, the views
\* are emptied and hidden behind the loading label, a thread is started.
DoLoadPath(path) ==
    /\ currentPath' = path
    /\ nThreads' = nThreads + 1
    /\ threads' = [CancelExisting EXCEPT ![nThreads + 1] = NewThread(InitialLoadLimit, 0)]
    /\ loaderThread' = nThreads + 1
    /\ allLoaded' = <<>>
    /\ isLoading' = TRUE
    /\ loadComplete' = FALSE
    /\ hasMoreItems' = FALSE
    /\ searchItems' = <<>>
    /\ searchHeld' = FALSE
    /\ rendered' = <<>>
    /\ viewShown' = FALSE
    /\ loadingLabel' = "loading"
    /\ UNCHANGED <<streamVars, thumbVars, folderSize, batchSize, uiQueue>>

\* Refresh: load_path(self.current_path).
LoadPath ==
    /\ nThreads < MaxLoadPathSessions
    /\ DoLoadPath(currentPath)
    /\ UNCHANGED <<viewMode, backStack, forwardStack, sortField, sortAscending>>

\* set_view_mode: the mode is stored and the current path is reloaded.
SetViewMode(mode) ==
    /\ nThreads < MaxLoadPathSessions
    /\ viewMode' = mode
    /\ DoLoadPath(currentPath)
    /\ UNCHANGED <<backStack, forwardStack, sortField, sortAscending>>

\* The entries _on_items_received adds for a batch of session s.
Received(s, items) == [i \in 1..Len(items) |-> [id |-> items[i], sid |-> s]]

\* _on_items_received(items): the slot of items_received.
OnItemsReceived(m) ==
    /\ IF Len(allLoaded) = 0
       THEN viewShown' = TRUE /\ loadingLabel' = "hidden"
       ELSE UNCHANGED <<viewShown, loadingLabel>>
    /\ allLoaded' = allLoaded \o Received(m.sid, m.items)
    /\ rendered' = rendered \o Received(m.sid, m.items)
    /\ UNCHANGED <<isLoading, loadComplete, hasMoreItems>>

\* _on_load_complete(has_more).
OnLoadComplete(m) ==
    /\ isLoading' = FALSE
    /\ loadComplete' = ~m.has_more
    /\ hasMoreItems' = m.has_more
    /\ UNCHANGED <<allLoaded, rendered, viewShown, loadingLabel>>

\* The rows left in the current mode's view when the table is emptied.
RowsAfterError == IF viewMode = "list" THEN <<>> ELSE rendered

\* _on_load_error(msg): the label shows the error; "Show empty view": the
\* table is shown and emptied, the icon list is hidden.
OnLoadError(m) ==
    /\ isLoading' = FALSE
    /\ loadComplete' = TRUE
    /\ loadingLabel' = "error"
    /\ viewShown' = (viewMode = "list")
    /\ rendered' = RowsAfterError
    /\ UNCHANGED <<allLoaded, hasMoreItems>>

\* The UI thread's event loop delivers the oldest queued signal to its slot.
Deliver ==
    /\ uiQueue # <<>>
    /\ LET m == Head(uiQueue)
       IN  /\ uiQueue' = Tail(uiQueue)
           /\ CASE m.kind = "items" -> OnItemsReceived(m)
                [] m.kind = "complete" -> OnLoadComplete(m)
                [] OTHER -> OnLoadError(m)
    /\ UNCHANGED <<streamVars, thumbVars, sortField, sortAscending, searchItems, searchHeld,
                   folderSize, batchSize, threads, nThreads, loaderThread, viewMode, navVars>>

\* The guard of the load-more body (line 507).
LoadMoreBlocked == isLoading \/ loadComplete

LoadMoreOffsetFirstPage == InitialLoadLimit

\* The offset the load-more body requests (line 521).
LoadMoreOffset == Len(allLoaded)

\* _on_icon_scroll(value); near: the scroll bar has a range and the value is
\* past 80% of it.  With more items and no load running a near-bottom
\* scroll calls self._load_more_items(), a method the class does not
\* define: the AttributeError ends the slot.  Otherwise the slot runs on
\* into the load-more body (lines 506-531).
OnIconScroll(near) ==
    /\ viewMode = "icons"
    /\ IF hasMoreItems /\ ~isLoading /\ near
       THEN UNCHANGED vars
       ELSE IF LoadMoreBlocked
            THEN UNCHANGED vars
            ELSE /\ nThreads < MaxSessions
                 /\ nThreads' = nThreads + 1
                 /\ threads' = [CancelExisting EXCEPT ![nThreads + 1] =
                                    NewThread(LoadMoreLimit, LoadMoreOffset)]
                 /\ loaderThread' = nThreads + 1
                 /\ isLoading' = TRUE
                 /\ UNCHANGED <<notList, folderSize, batchSize, uiQueue, allLoaded, loadComplete,
                                hasMoreItems, viewMode, displayVars, navVars>>

\* _on_table_scroll(value): returns unless more items are available and no
\* load is running; near the bottom it calls the undefined
\* self._load_more_items(), and the AttributeError ends the slot.
OnTableScroll(near) ==
    /\ viewMode = "list"
    /\ UNCHANGED vars

\* -------------------------------------------------------------- controller
Init ==
    /\ StreamIdle
    /\ ThumbIdle
    /\ SortIdle
    /\ folderSize \in 0..MaxItems
    /\ batchSize \in 1..MaxBatchSize
    /\ threads = [s \in Sessions |-> NoThread]
    /\ nThreads = 0
    /\ loaderThread = 0
    /\ uiQueue = <<>>
    /\ allLoaded = <<>>
    /\ isLoading = FALSE
    /\ loadComplete = FALSE
    /\ hasMoreItems = FALSE
    /\ viewMode = "list"
    /\ viewShown = TRUE
    /\ loadingLabel = "hidden"
    /\ currentPath = Root
    /\ backStack = <<>>
    /\ forwardStack = <<>>

ThreadStep(s) ==
    \/ ThreadItem(s)
    \/ ThreadStreamEnd(s)
    \/ ThreadEmitCheck(s)
    \/ ThreadEmit(s)
    \/ ThreadPost(s)
    \/ ThreadFinalCheck(s)
    \/ ThreadFinalEmit(s)
    \/ ThreadErrCheck(s)
    \/ ThreadLoadComplete(s)

Next ==
    \/ LoadPath
    \/ \E mode \in {"list", "icons"} : SetViewMode(mode)
    \/ Deliver
    \/ \E near \in BOOLEAN : OnIconScroll(near)
    \/ \E near \in BOOLEAN : OnTableScroll(near)
    \/ \E s \in Sessions : ThreadStep(s) \/ ThreadStreamFails(s)

Spec == Init /\ [][Next]_vars

\* ------------------------------------------------------------------ paging
\* One folder view that is loaded once and then paged by load-more, on a
\* server and network that do not fail: folders of up to MaxFolder entries.
InitPaging ==
    /\ StreamIdle
    /\ ThumbIdle
    /\ SortIdle
    /\ folderSize \in 0..MaxFolder
    /\ batchSize \in 1..MaxBatchSize
    /\ threads = [s \in Sessions |-> NoThread]
    /\ nThreads = 0
    /\ loaderThread = 0
    /\ uiQueue = <<>>
    /\ allLoaded = <<>>
    /\ isLoading = FALSE
    /\ loadComplete = FALSE
    /\ hasMoreItems = FALSE
    /\ viewMode = "list"
    /\ viewShown = TRUE
    /\ loadingLabel = "hidden"
    /\ currentPath = Root
    /\ backStack = <<>>
    /\ forwardStack = <<>>

FirstLoad ==
    /\ nThreads = 0
    /\ (LoadPath \/ \E mode \in {"list", "icons"} : SetViewMode(mode))

NextPaging ==
    \/ FirstLoad
    \/ Deliver
    \/ \E near \in BOOLEAN : OnIconScroll(near)
    \/ \E near \in BOOLEAN : OnTableScroll(near)
    \/ \E s \in Sessions : ThreadStep(s)

SpecPaging == InitPaging /\ [][NextPaging]_vars

\* ------------------------------------------------------------ stream_files
\* APIClient.stream_files(path, on_item_callback, max_items, offset) on one
\* response.  The callback's return value is any of True, False and None.
CallbackResults == {"True", "False", "None"}

LineKinds == {"item", "error", "bad", "blank"}

SeqsUpTo(S, n) == UNION {[1..k -> S] : k \in 0..n}

ReportsBadLine(pc, error) == <<"done", "server">>

\* `except json.JSONDecodeError: pass` (lines 81-82): the loop goes on with
\* the error as it was.  Gives <<pc, error>>.
AfterBadLine(pc, error) == <<pc, error>>

\* One pass of the for loop over the next line (lines 59-82).
SfLine(result) ==
    /\ sfPc = "loop"
    /\ sfPos < Len(sfLines)
    /\ sfPos' = sfPos + 1
    /\ LET kind == sfLines[sfPos + 1]
       IN  CASE kind = "blank" ->         \* `if not line: continue`
                    UNCHANGED <<sfPc, sfCount, sfError, sfHasMore, sfCalls>>
             [] kind = "bad" ->           \* JSONDecodeError: pass
                    /\ sfPc' = AfterBadLine(sfPc, sfError)[1]
                    /\ sfError' = AfterBadLine(sfPc, sfError)[2]
                    /\ UNCHANGED <<sfCount, sfHasMore, sfCalls>>
             [] kind = "error" ->         \* error = item["error"]; the loop goes on
                    /\ sfError' = "server"
                    /\ UNCHANGED <<sfPc, sfCount, sfHasMore, sfCalls>>
             [] OTHER ->
                    IF ~sfHasCallback
                    THEN UNCHANGED <<sfPc, sfCount, sfError, sfHasMore, sfCalls>>
                    ELSE LET r == AfterCallback(result, sfCount + 1, sfMax)
                         IN  /\ sfCount' = sfCount + 1
                             /\ sfCalls' = Append(sfCalls, <<sfPos + 1, result>>)
                             /\ sfHasMore' = r[1]
                             /\ sfPc' = IF r[2] THEN "done" ELSE "loop"
                             /\ UNCHANGED sfError
    /\ UNCHANGED <<sfLines, sfMax, sfHasCallback, notStream>>

\* The response is exhausted: the loop ends and the function returns.
SfEnd ==
    /\ sfPc = "loop"
    /\ sfPos = Len(sfLines)
    /\ sfPc' = "done"
    /\ UNCHANGED <<sfLines, sfMax, sfHasCallback, sfPos, sfCount, sfError,
                   sfHasMore, sfCalls, notStream>>

\* requests raises while the response is read: `except Exception as e`.
SfRaise ==
    /\ sfPc = "loop"
    /\ sfError' = "transport"
    /\ sfPc' = "done"
    /\ UNCHANGED <<sfLines, sfMax, sfHasCallback, sfPos, sfCount, sfHasMore, sfCalls,
                   notStream>>

ListIdle ==
    /\ folderSize = 0
    /\ batchSize = 1
    /\ threads = [s \in Sessions |-> NoThread]
    /\ nThreads = 0
    /\ loaderThread = 0
    /\ uiQueue = <<>>
    /\ allLoaded = <<>>
    /\ isLoading = FALSE
    /\ loadComplete = FALSE
    /\ hasMoreItems = FALSE
    /\ viewMode = "list"
    /\ viewShown = TRUE
    /\ loadingLabel = "hidden"
    /\ currentPath = Root
    /\ backStack = <<>>
    /\ forwardStack = <<>>

InitStream ==
    /\ ListIdle
    /\ ThumbIdle
    /\ SortIdle
    /\ sfLines \in SeqsUpTo(LineKinds, MaxLines)
    /\ sfMax \in 0..MaxLimit
    /\ sfHasCallback \in BOOLEAN
    /\ sfPc = "loop"
    /\ sfPos = 0
    /\ sfCount = 0
    /\ sfError = "none"
    /\ sfHasMore = FALSE
    /\ sfCalls = <<>>

NextStream ==
    \/ \E result \in CallbackResults : SfLine(result)
    \/ SfEnd
    \/ SfRaise

SpecStream == InitStream /\ [][NextStream]_vars

\* ------------------------------------------------------ thumbnail scheduler
PendingKeys(pending) == {pending[i].key : i \in 1..Len(pending)}

InsertAtBack(pending, entry, is_visible) == Append(pending, entry)

InsertPendingReplaces(pending, entry, is_visible) ==
    IF is_visible THEN <<entry>> ELSE Append(pending, entry)

\* "visible items go to front, others to back" (lines 943-947).
InsertPending(pending, entry, is_visible) ==
    IF is_visible THEN <<entry>> \o pending ELSE Append(pending, entry)

StartsAlways(active) == TRUE

MayStartLeavesSlot(active) == active + 1 < MaxConcurrent

\* The loop condition of _start_next_thumb on the active count (line 978).
MayStart(active) == active < MaxConcurrent

\* _start_next_thumb: while a slot is free and a request is pending, pop the
\* front request, issue its GET and count it.
RECURSIVE StartNextThumb(_, _, _)
StartNextThumb(pending, active, replies) ==
    IF MayStart(active) /\ pending # <<>>
    THEN LET r == StartNextThumb(Tail(pending), active + 1,
                                 [replies EXCEPT ![Head(pending).key] = @ + 1])
         IN  [r EXCEPT !.started = <<Head(pending)>> \o @]
    ELSE [pending |-> pending, active |-> active, replies |-> replies,
          started |-> <<>>]

NeverDuplicate(key, inflight) == FALSE

\* "Avoid duplicate requests" (line 928).
IsDuplicate(key, inflight) == key \in inflight

CacheNeverHit(key, cache) == FALSE

\* The cache lookup of _load_thumbnail_async (line 922).
CacheHit(key, cache) == key \in cache

AppliesToAllKeys(key, icons, items) == icons \cup items

\* _apply_thumb_to_items(key, pixmap): the icon of every item of the icon
\* list whose path is the key's path is set.  Gives the keys whose items
\* show a thumbnail.
ApplyThumbToItems(key, icons, items) == IF key \in items THEN icons \cup {key} ELSE icons

\* _load_thumbnail_async(list_item, path) for the item with this key;
\* is_visible: the item's rectangle intersects the viewport.  The caller
\* says what the icon list holds.
LoadThumbnailAsync(key, is_visible) ==
    /\ IF CacheHit(key, thumbCache)
       THEN /\ iconSet' = ApplyThumbToItems(key, iconSet, iconItems')
            /\ lastOp' = [op |-> "request", key |-> key, outcome |-> "hit",
                          started |-> <<>>]
            /\ UNCHANGED <<thumbCache, thumbInflight, thumbPending, thumbActive, netReplies>>
       ELSE IF IsDuplicate(key, thumbInflight)
       THEN /\ lastOp' = [op |-> "request", key |-> key, outcome |-> "duplicate",
                          started |-> <<>>]
            /\ UNCHANGED <<thumbCache, thumbInflight, thumbPending, thumbActive,
                           netReplies, iconSet>>
       ELSE LET queued == InsertPending(thumbPending,
                                        [key |-> key, vis |-> is_visible], is_visible)
                r == StartNextThumb(queued, thumbActive, netReplies)
            IN  /\ thumbInflight' = thumbInflight \cup {key}
                /\ thumbPending' = r.pending
                /\ thumbActive' = r.active
                /\ netReplies' = r.replies
                /\ lastOp' = [op |-> "request", key |-> key, outcome |-> "queued",
                              started |-> r.started]
                /\ UNCHANGED <<thumbCache, iconSet>>
    /\ UNCHANGED notThumb

InflightKept(inflight, key) == inflight

\* "Clean up inflight marker" (lines 1003-1004).
InflightAfterFinish(inflight, key) == inflight \ {key}

\* _on_finished of a reply for this key; ok: the reply carries data that
\* decodes as an image.
OnFinished(key, ok) ==
    /\ netReplies[key] > 0
    /\ thumbCache' = IF ok THEN thumbCache \cup {key} ELSE thumbCache
    /\ iconSet' = IF ok THEN ApplyThumbToItems(key, iconSet, iconItems) ELSE iconSet
    /\ UNCHANGED iconItems
    /\ thumbInflight' = InflightAfterFinish(thumbInflight, key)
    /\ LET r == StartNextThumb(thumbPending, Max(0, thumbActive - 1),
                               [netReplies EXCEPT ![key] = @ - 1])
       IN  /\ thumbPending' = r.pending
           /\ thumbActive' = r.active
           /\ netReplies' = r.replies
           /\ lastOp' = [op |-> "finished", key |-> key,
                         outcome |-> IF ok THEN "stored" ELSE "dropped",
                         started |-> r.started]
    /\ UNCHANGED notThumb

\* _render_icons_chunk in the thumbnails view, for one file of the chunk:
\* the item is added to the icon list and its thumbnail is requested.
RenderIconsChunk(key, is_visible) ==
    /\ key \notin iconItems
    /\ iconItems' = iconItems \cup {key}
    /\ LoadThumbnailAsync(key, is_visible)

\* _load_visible_thumbnails, for one file item of the icon list within the
\* viewport expanded by half its height: its thumbnail is requested;
\* is_visible is false for an item in the expansion only.
LoadVisibleThumbnails(key, is_visible) ==
    /\ key \in iconItems
    /\ UNCHANGED iconItems
    /\ LoadThumbnailAsync(key, is_visible)

\* icon_list.clear() (load_path, _render_icons): the items are removed;
\* the scheduler's cache, in-flight set, queue and count are not touched.
ViewCleared ==
    /\ iconItems # {}
    /\ iconItems' = {}
    /\ iconSet' = {}
    /\ lastOp' = [op |-> "cleared", key |-> 0, outcome |-> "none", started |-> <<>>]
    /\ UNCHANGED <<thumbCache, thumbInflight, thumbPending, thumbActive, netReplies>>
    /\ UNCHANGED notThumb

InitThumb ==
    /\ ListIdle
    /\ StreamIdle
    /\ SortIdle
    /\ ThumbIdle

NextThumb ==
    \/ \E key \in Keys, is_visible \in BOOLEAN : RenderIconsChunk(key, is_visible)
    \/ \E key \in Keys, is_visible \in BOOLEAN : LoadVisibleThumbnails(key, is_visible)
    \/ \E key \in Keys, ok \in BOOLEAN : OnFinished(key, ok)
    \/ ViewCleared

SpecThumb == InitThumb /\ [][NextThumb]_vars

\* The thumbnails view over a network on which every GET that was issued
\* ends: QNetworkReply emits finished for a reply that succeeded, failed or
\* timed out, and the event loop runs its slot.
\* One folder stays displayed: its files are rendered, scrolled into and
\* out of view, and their fetches end.
NextThumbFolder ==
    \/ \E key \in Keys, is_visible \in BOOLEAN : RenderIconsChunk(key, is_visible)
    \/ \E key \in Keys, is_visible \in BOOLEAN : LoadVisibleThumbnails(key, is_visible)
    \/ \E key \in Keys, ok \in BOOLEAN : OnFinished(key, ok)

SpecThumbFair ==
    /\ InitThumb
    /\ [][NextThumbFolder]_vars
    /\ \A key \in Keys : WF_vars(\E ok \in BOOLEAN : OnFinished(key, ok))

\* MainWindow._on_image_saved(saved_path) for a displayed file: _refresh
\* calls load_path(current_path), which clears the icon list; nothing is
\* removed from the thumbnail cache.
OnImageSaved(key) ==
    /\ key \in iconItems
    /\ iconItems' = {}
    /\ iconSet' = {}
    /\ lastOp' = [op |-> "saved", key |-> key, outcome |-> "none", started |-> <<>>]
    /\ UNCHANGED <<thumbCache, thumbInflight, thumbPending, thumbActive, netReplies>>
    /\ UNCHANGED notThumb

\* The thumbnails view with images edited and saved in the viewer.
NextSaved ==
    \/ NextThumb
    \/ \E key \in Keys : OnImageSaved(key)

SpecSaved == InitThumb /\ [][NextSaved]_vars

\* ------------------------------------------------------------------- sort
\* A name is its sequence of character codes; an optional field (size,
\* lastModified) is <<>> when the server sent none, <<n>> otherwise.
Names == {<<97>>, <<65>>, <<66>>}        \* "a", "A", "B"

SortUniverse ==
    {[name |-> n, type |-> k.type, size |-> k.size, lastModified |-> m] :
        n \in Names,
        k \in {[type |-> "dir", size |-> <<>>], [type |-> "file", size |-> <<>>],
               [type |-> "file", size |-> <<5>>]},
        m \in {<<>>, <<7>>}}

\* str.lower() on one character, and on a name.
LowerChar(c) == IF c \in 65..90 THEN c + 32 ELSE c

Lower(name) == [i \in 1..Len(name) |-> LowerChar(name[i])]

\* Python's < on strings (by code point, a proper prefix first).
RECURSIVE StrLess(_, _)
StrLess(a, b) ==
    IF b = <<>> THEN FALSE
    ELSE IF a = <<>> THEN TRUE
    ELSE IF Head(a) # Head(b) THEN Head(a) < Head(b)
    ELSE StrLess(Tail(a), Tail(b))

\* "dir" < "file" as strings.
TypeLess(a, b) == a = "dir" /\ b = "file"

SizeKeyFoldersAsZero(item) ==
    IF item.type = "dir" THEN 0
    ELSE IF item.size = <<>> THEN 0 ELSE item.size[1]

\* get_sort_key for the size field (lines 357-362).
SizeKey(item) ==
    IF item.type = "dir" THEN -1
    ELSE IF item.size = <<>> THEN 0 ELSE item.size[1]

\* get_sort_key for the date field (lines 353-356).
DateKey(item) == IF item.lastModified = <<>> THEN 0 ELSE item.lastModified[1]

\* get_sort_key for the name field (line 352).
NameKey(item) == Lower(item.name)

\* key(a) < key(b) for get_sort_key under the given sort field; the type
\* field's key is the tuple (type, lowered name).
KeyLess(field, a, b) ==
    CASE field = "name" -> StrLess(NameKey(a), NameKey(b))
      [] field = "date" -> DateKey(a) < DateKey(b)
      [] field = "size" -> SizeKey(a) < SizeKey(b)
      [] field = "type" ->
             \/ TypeLess(a.type, b.type)
             \/ a.type = b.type /\ StrLess(Lower(a.name), Lower(b.name))
      [] OTHER -> FALSE

\* Whether x must come before e in the result of sorted(key, reverse).
ComesBefore(field, ascending, x, e) ==
    IF ascending THEN KeyLess(field, x, e) ELSE KeyLess(field, e, x)

\* x inserted before the first element it must precede: elements with equal
\* keys keep their order of arrival, also under reverse=True.
RECURSIVE InsertStable(_, _, _, _)
InsertStable(field, ascending, done, x) ==
    IF done = <<>> THEN <<x>>
    ELSE IF ComesBefore(field, ascending, x, Head(done)) THEN <<x>> \o done
    ELSE <<Head(done)>> \o InsertStable(field, ascending, Tail(done), x)

RECURSIVE SortedFrom(_, _, _, _)
SortedFrom(field, ascending, done, rest) ==
    IF rest = <<>> THEN done
    ELSE SortedFrom(field, ascending,
                    InsertStable(field, ascending, done, Head(rest)), Tail(rest))

Reversed(seq) == [i \in 1..Len(seq) |-> seq[Len(seq) + 1 - i]]

SortItemsThenReverse(items, field, ascending) ==
    IF ascending THEN SortedFrom(field, TRUE, <<>>, items)
    ELSE Reversed(SortedFrom(field, TRUE, <<>>, items))

\* _sort_items(items): sorted(items, key=get_sort_key, reverse=not ascending).
SortItems(items, field, ascending) == SortedFrom(field, ascending, <<>>, items)

\* sort_map of _on_sort_changed.
SortMap(text) ==
    CASE text = "Name" -> "name"
      [] text = "Date" -> "date"
      [] text = "Size" -> "size"
      [] text = "Type" -> "type"
      [] OTHER -> "name"

\* _on_sort_changed(text): the field is stored; while search results are
\* held they are rendered again, sorted; otherwise the current path is
\* loaded again (line 330).
OnSortChanged(text) ==
    /\ sortField' = SortMap(text)
    /\ IF searchHeld
       THEN /\ rendered' = SortItems(searchItems, SortMap(text), sortAscending)
            /\ UNCHANGED <<sortAscending, searchItems, searchHeld, notSort>>
       ELSE /\ nThreads < MaxSessions
            /\ DoLoadPath(currentPath)
            /\ UNCHANGED <<viewMode, backStack, forwardStack, sortAscending>>

\* _toggle_sort_order(): the same with the direction (line 346).
ToggleSortOrder ==
    /\ sortAscending' = ~sortAscending
    /\ IF searchHeld
       THEN /\ rendered' = SortItems(searchItems, sortField, ~sortAscending)
            /\ UNCHANGED <<sortField, searchItems, searchHeld, notSort>>
       ELSE /\ nThreads < MaxSessions
            /\ DoLoadPath(currentPath)
            /\ UNCHANGED <<viewMode, backStack, forwardStack, sortField>>

\* The widget holds the results of a search, rendered by _on_search.
InitSort ==
    /\ ListIdle
    /\ StreamIdle
    /\ ThumbIdle
    /\ sortField = "name"
    /\ sortAscending = TRUE
    /\ searchHeld = TRUE
    /\ searchItems \in SeqsUpTo(SortUniverse, MaxSortLen)
    /\ rendered = SortItems(searchItems, "name", TRUE)

NextSort ==
    \/ \E text \in {"Name", "Date", "Size", "Type"} : OnSortChanged(text)
    \/ ToggleSortOrder

SpecSort == InitSort /\ [][NextSort]_vars

\* ------------------------------------------------- navigation and search
\* The folders the user can reach: "/", "/a" and "/a/b".
Paths == {Root, <<"/", "a">>, <<"/", "a", "/", "b">>}

\* What api_client.search returns: nothing, or a file "a" of 5 bytes and a
\* directory "B".
SearchResults ==
    {<<>>,
     <<[name |-> <<97>>, type |-> "file", size |-> <<5>>, lastModified |-> <<>>],
       [name |-> <<66>>, type |-> "dir", size |-> <<>>, lastModified |-> <<>>]>>}

\* navigate_to(path): a new path pushes the current one on the back stack
\* and clears the forward stack; then load_path(path).
NavigateTo(path) ==
    /\ nThreads < MaxSessions
    /\ IF path # currentPath
       THEN /\ backStack' = IF currentPath # <<>> THEN Append(backStack, currentPath)
                             ELSE backStack
            /\ forwardStack' = <<>>
       ELSE UNCHANGED <<backStack, forwardStack>>
    /\ DoLoadPath(path)
    /\ UNCHANGED <<viewMode, sortField, sortAscending>>

PopKeepsTop(stack) == stack

\* A list after pop() (line 563).
AfterPop(stack) == SubSeq(stack, 1, Len(stack) - 1)

\* go_back(): nothing on an empty back stack; otherwise the popped path is
\* loaded and the current one pushed on the forward stack.
GoBack ==
    IF backStack = <<>> THEN UNCHANGED vars
    ELSE /\ nThreads < MaxSessions
         /\ backStack' = AfterPop(backStack)
         /\ forwardStack' = IF currentPath # <<>> THEN Append(forwardStack, currentPath)
                                ELSE forwardStack
         /\ DoLoadPath(backStack[Len(backStack)])
         /\ UNCHANGED <<viewMode, sortField, sortAscending>>

\* The position of the last "/" of a string, 0 when it has none.
LastSlash(str) ==
    LET at == {i \in 1..Len(str) : str[i] = "/"}
    IN  IF at = {} THEN 0 ELSE CHOOSE i \in at : \A j \in at : j <= i

\* str.rsplit("/", 1)[0]: the string before its last "/", the whole string
\* when it has none.
RSplitHead(str) ==
    IF LastSlash(str) = 0 THEN str ELSE SubSeq(str, 1, LastSlash(str) - 1)

ParentPathUnclamped(cur) == RSplitHead(cur)

\* The parent go_up computes (lines 577-579): rsplit, and "/" for "".
ParentPath(cur) == IF RSplitHead(cur) = <<>> THEN Root ELSE RSplitHead(cur)

\* go_up(): nothing at "/" (an empty path counts as "/"); otherwise a
\* leading "/" is supplied if missing and navigate_to(parent) is called.
GoUp ==
    LET cur == IF currentPath = <<>> THEN Root ELSE currentPath
        norm == IF Head(cur) # "/" THEN <<"/">> \o cur ELSE cur
    IN  IF cur = Root THEN UNCHANGED vars
        ELSE NavigateTo(ParentPath(norm))

\* _on_search() with an API client; fails: api_client.search raised, a
\* message box is shown and nothing else changes.  Otherwise the results
\* are kept and rendered, sorted, in the current mode's view.
OnSearch(fails, items) ==
    IF fails THEN UNCHANGED vars
    ELSE /\ searchItems' = items
         /\ searchHeld' = TRUE
         /\ rendered' = SortItems(items, sortField, sortAscending)
         /\ UNCHANGED <<sortField, sortAscending, notSort>>

ClearSearchByGoBack == IF ~searchHeld THEN UNCHANGED vars ELSE GoBack

\* _clear_search(): with search results held they are dropped and the
\* current path is loaded again.
ClearSearch ==
    IF ~searchHeld THEN UNCHANGED vars
    ELSE /\ nThreads < MaxSessions
         /\ DoLoadPath(currentPath)
         /\ UNCHANGED <<viewMode, backStack, forwardStack, sortField, sortAscending>>

\* The widget before its first load, on a folder of up to NavFolder
\* entries.
InitNav ==
    /\ StreamIdle
    /\ ThumbIdle
    /\ SortIdle
    /\ folderSize \in 0..NavFolder
    /\ batchSize \in 1..MaxBatchSize
    /\ threads = [s \in Sessions |-> NoThread]
    /\ nThreads = 0
    /\ loaderThread = 0
    /\ uiQueue = <<>>
    /\ allLoaded = <<>>
    /\ isLoading = FALSE
    /\ loadComplete = FALSE
    /\ hasMoreItems = FALSE
    /\ viewMode = "list"
    /\ viewShown = TRUE
    /\ loadingLabel = "hidden"
    /\ currentPath = Root
    /\ backStack = <<>>
    /\ forwardStack = <<>>

\* No thread is running and no signal is waiting: the listing has settled.
Settled == uiQueue = <<>> /\ \A s \in Sessions : ~IsRunning(s)

\* The user navigates, searches and clears the search on settled listings.
NextNav ==
    \/ \E path \in Paths : Settled /\ NavigateTo(path)
    \/ Settled /\ GoBack
    \/ Settled /\ GoUp
    \/ \E fails \in BOOLEAN, items \in SearchResults : Settled /\ OnSearch(fails, items)
    \/ Settled /\ ClearSearch
    \/ Deliver
    \/ \E s \in Sessions : ThreadStep(s)

SpecNav == InitNav /\ [][NextNav]_vars

\* The user refreshes, searches and changes the sort order on settled
\* listings.
NextResort ==
    \/ Settled /\ LoadPath
    \/ \E fails \in BOOLEAN, items \in SearchResults : Settled /\ OnSearch(fails, items)
    \/ \E text \in {"Name", "Date", "Size", "Type"} : Settled /\ OnSortChanged(text)
    \/ Settled /\ ToggleSortOrder
    \/ Deliver
    \/ \E s \in Sessions : ThreadStep(s)

SpecResort == InitNav /\ [][NextResort]_vars

\* The user refreshes and clears the search on settled listings, and
\* searches at any moment, also while a session is streaming.
NextFilter ==
    \/ Settled /\ LoadPath
    \/ \E fails \in BOOLEAN, items \in SearchResults : OnSearch(fails, items)
    \/ Settled /\ ClearSearch
    \/ Deliver
    \/ \E s \in Sessions : ThreadStep(s)

SpecFilter == InitNav /\ [][NextFilter]_vars

\* ------------------------------------------------------------------ logout
\* MainWindow._on_login_or_logout with a client: the client is dropped and
\* load_path("/") runs its branch for no client (lines 390-401): the views
\* are emptied and hidden, the label is hidden and the two loading flags
\* are cleared.  The collection, the running thread, the has-more flag and
\* the search state are not touched.
Logout ==
    /\ currentPath' = Root
    /\ rendered' = <<>>
    /\ viewShown' = FALSE
    /\ loadingLabel' = "hidden"
    /\ isLoading' = FALSE
    /\ loadComplete' = FALSE
    /\ UNCHANGED <<streamVars, thumbVars, sortField, sortAscending, searchItems, searchHeld,
                   folderSize, batchSize, threads, nThreads, loaderThread, uiQueue,
                   allLoaded, hasMoreItems, viewMode, backStack, forwardStack>>

\* The display Logout leaves: both views and the label hidden.
LoggedOut == ~viewShown /\ loadingLabel = "hidden"

\* The user logs out at any moment; a login loads "/", and a refresh the
\* current path.
NextLogout ==
    \/ LoadPath
    \/ Logout
    \/ Deliver
    \/ \E s \in Sessions : ThreadStep(s)

SpecLogout == InitNav /\ [][NextLogout]_vars

\* ------------------------------------------------------- failing listings
\* A folder is loaded, in either view, from a server that may report an
\* error in the stream and over a network that may fail.
NextFailing ==
    \/ Settled /\ LoadPath
    \/ \E mode \in {"list", "icons"} : Settled /\ SetViewMode(mode)
    \/ Deliver
    \/ \E s \in Sessions : ThreadStep(s)
    \/ \E s \in Sessions : ThreadErrorLine(s)
    \/ \E s \in Sessions : ThreadStreamFails(s)

SpecFailing == InitNav /\ [][NextFailing]_vars

\* --------------------------------------------------------- failing pages
\* The paged folder view on a server that may report an error in the
\* stream and over a network that may fail, in any session.
NextPagingFails ==
    \/ NextPaging
    \/ \E s \in Sessions : ThreadErrorLine(s)
    \/ \E s \in Sessions : ThreadStreamFails(s)

SpecPagingFails == InitPaging /\ [][NextPagingFails]_vars

\* ----------------------------------------------------- emitted signals
\* The threads' side alone: the UI thread delivers nothing, so that the
\* event queue holds every signal emitted, in order of emission.  The user
\* refreshes at any moment; the stream may report an error or fail.
NextEmit ==
    \/ LoadPath
    \/ \E s \in Sessions : ThreadStep(s)
    \/ \E s \in Sessions : ThreadErrorLine(s)
    \/ \E s \in Sessions : ThreadStreamFails(s)

SpecEmit == InitNav /\ [][NextEmit]_vars

\* ------------------------------------------------------------ progress
\* A folder is loaded and refreshed at any moment, on a server that may
\* report an error and over a network that may fail.
NextLive ==
    \/ LoadPath
    \/ Deliver
    \/ \E s \in Sessions : ThreadStep(s)
    \/ \E s \in Sessions : ThreadErrorLine(s)
    \/ \E s \in Sessions : ThreadStreamFails(s)

\* A step of the thread of the widget's current session: its stream
\* delivers a line, ends or fails, or run() goes on.
LoaderRuns ==
    \E s \in Sessions :
        /\ s = loaderThread
        /\ (ThreadStep(s) \/ ThreadErrorLine(s) \/ ThreadStreamFails(s))

\* The event loop delivers queued signals; the current session's thread
\* runs and its stream ends or fails.  A thread that was cancelled is
\* abandoned after wait(100) and may never terminate: nothing is assumed
\* about it.
SpecLive ==
    /\ InitNav
    /\ [][NextLive]_vars
    /\ WF_vars(Deliver)
    /\ WF_vars(LoaderRuns)

\* ------------------------------------------------------------------ claims
Ids(entries) == [i \in 1..Len(entries) |-> entries[i].id]

OwnEntries(s) == SelectSeq(allLoaded, LAMBDA e : e.sid = s)

\* The items stream_files handed to a thread's callback so far.
Delivered(t) == SubSeq(ServerLines(t.offset, t.limit), 1, t.pos)

Queued(s) == \E i \in 1..Len(uiQueue) : uiQueue[i].sid = s

\* C1: once a session has been cancelled, no batch it produced is appended
\* to the accumulated entries: every entry a step appends comes from a
\* session that is not cancelled.
C1_StaleBatchNeverAppended ==
    [][\A i \in (Len(allLoaded) + 1)..Len(allLoaded') :
          ~threads[allLoaded'[i].sid].cancelled]_vars

\* A session that ran to completion without being cancelled, all of whose
\* signals have been delivered, and that is still the widget's session.
Completed(s) ==
    /\ s = loaderThread
    /\ threads[s].pc = "done"
    /\ ~threads[s].cancelled
    /\ ~Queued(s)

Quiescent ==
    /\ nThreads >= 1
    /\ \A s \in 1..nThreads : threads[s].pc = "done"
    /\ uiQueue = <<>>

InServerOrder == Ids(allLoaded) = [i \in 1..Len(allLoaded) |-> i]

\* Each load-more session requested the number of entries accumulated by
\* the sessions before it.
OffsetsFollow ==
    \A s \in 2..nThreads :
        threads[s].offset = Len(SelectSeq(allLoaded, LAMBDA e : e.sid < s))

ItemLines == {i \in 1..Len(sfLines) : sfLines[i] = "item"}

\* C3: with limit L >= 1 and a stream of more than L items, stream_files
\* hands at most L items to the callback and returns has_more = True.
C3_CapEnforced ==
    (sfHasCallback /\ sfMax >= 1 /\ Cardinality(ItemLines) > sfMax) =>
        /\ Len(sfCalls) <= sfMax
        /\ (sfPc = "done" /\ sfError # "transport" => sfHasMore)

\* The cap itself stopped the stream: the callback never asked to stop.
C3_Witness ==
    /\ sfPc = "done"
    /\ sfMax = 2
    /\ Cardinality(ItemLines) > sfMax
    /\ Len(sfCalls) = sfMax
    /\ \A i \in 1..Len(sfCalls) : sfCalls[i][2] # "False"
    /\ sfHasMore

\* C4 as claimed: load_path and successive load-more sessions accumulate the
\* folder in server order without gaps or duplicates, each load-more
\* requesting the accumulated count, and after every page hasMore tells
\* whether entries remain on the server.
C4_HasMoreIffRemaining ==
    Quiescent =>
        /\ InServerOrder
        /\ OffsetsFollow
        /\ (hasMoreItems <=> Len(allLoaded) < folderSize)

\* C4 as amended: the same accumulation, and after every page hasMore tells
\* whether that page delivered a full page of entries (true also when the
\* full page was the last of the folder), the count being the folder's size
\* capped by the pages requested.
C4_HasMoreIffFullPage ==
    Quiescent =>
        /\ InServerOrder
        /\ OffsetsFollow
        /\ Len(allLoaded) =
               Min(folderSize, InitialLoadLimit + (nThreads - 1) * LoadMoreLimit)
        /\ (hasMoreItems <=> threads[nThreads].total = threads[nThreads].limit)

\* Two full pages and a final partial one have been accumulated.
C4_Witness ==
    /\ Quiescent
    /\ nThreads = 3
    /\ folderSize > InitialLoadLimit + LoadMoreLimit
    /\ Len(allLoaded) = folderSize
    /\ ~hasMoreItems

\* C5: at most one listing session is active (its thread running and not
\* cancelled).
Active(s) == IsRunning(s) /\ ~threads[s].cancelled

C5_AtMostOneActive == Cardinality({s \in Sessions : Active(s)}) <= 1

\* A new session is streaming while the thread of the one it replaced,
\* cancelled, has not finished yet.
C5_Witness ==
    \E s1, s2 \in Sessions :
        /\ s1 # s2
        /\ IsRunning(s1) /\ threads[s1].cancelled
        /\ Active(s2) /\ threads[s2].pos > 0

\* ------------------------------------------------------- thumbnail claims
InFlight == {k \in Keys : netReplies[k] > 0}

RECURSIVE SumReplies(_)
SumReplies(ks) ==
    IF ks = {} THEN 0
    ELSE LET k == CHOOSE x \in ks : TRUE IN netReplies[k] + SumReplies(ks \ {k})

QueuedCount(k) == Cardinality({i \in 1..Len(thumbPending) : thumbPending[i].key = k})

\* C6: for every key at most one request is queued or in flight, and a
\* request for a key that is already queued or in flight starts no fetch.
C6_OneRequestPerKey ==
    /\ \A k \in Keys : netReplies[k] + QueuedCount(k) <= 1
    /\ (lastOp.outcome = "duplicate" => lastOp.started = <<>>)

\* A second request for a key arrived while its first fetch was in flight.
C6_Witness ==
    /\ lastOp.op = "request"
    /\ lastOp.outcome = "duplicate"
    /\ netReplies[lastOp.key] = 1

\* C7: a request for a cached key applies the cached image in the call and
\* neither queues nor starts a fetch; no fetch is queued or in flight for a
\* key that is in the cache.
C7_CacheHitShortCircuit ==
    /\ \A k \in thumbCache : netReplies[k] = 0 /\ QueuedCount(k) = 0
    /\ (lastOp.op = "request" /\ lastOp.key \in thumbCache =>
            /\ lastOp.outcome = "hit"
            /\ lastOp.started = <<>>
            /\ lastOp.key \in iconSet)

\* A request hit the cache while other requests were waiting for a slot.
C7_Witness ==
    /\ lastOp.op = "request"
    /\ lastOp.outcome = "hit"
    /\ lastOp.key \in iconSet
    /\ thumbPending # <<>>

\* C8: a request made for a visible item is started before every
\* background request that was pending when it was queued: whenever a
\* handler starts a background request, no visible request is left waiting.
C8_VisibleFirst ==
    (\E i \in 1..Len(lastOp.started) : ~lastOp.started[i].vis) =>
        \A j \in 1..Len(thumbPending) : ~thumbPending[j].vis

\* A completion freed a slot and the visible request took it, ahead of two
\* background requests that are still waiting.
C8_Witness ==
    /\ lastOp.op = "finished"
    /\ Len(lastOp.started) = 1
    /\ lastOp.started[1].vis
    /\ Len(thumbPending) >= 2
    /\ \A j \in 1..Len(thumbPending) : ~thumbPending[j].vis

\* C9: the number of thumbnail fetches in flight never exceeds the cap.
C9_ConcurrencyCap ==
    /\ SumReplies(Keys) <= MaxConcurrent
    /\ thumbActive = SumReplies(Keys)

\* The cap is reached with requests waiting, after a completion refilled
\* the freed slot.
C9_Witness ==
    /\ SumReplies(Keys) = MaxConcurrent
    /\ Len(thumbPending) >= 2
    /\ lastOp.op = "finished"
    /\ lastOp.started # <<>>

\* ------------------------------------------------------------ sort claims
Occurrences(seq, x) == Cardinality({i \in 1..Len(seq) : seq[i] = x})

SameEntries(a, b) ==
    /\ Len(a) = Len(b)
    /\ \A i \in 1..Len(a) : Occurrences(a, a[i]) = Occurrences(b, a[i])

LoweredLE(a, b) == Lower(a.name) = Lower(b.name) \/ StrLess(Lower(a.name), Lower(b.name))

DateOf(e) == IF e.lastModified = <<>> THEN 0 ELSE e.lastModified[1]

BytesOf(e) == IF e.size = <<>> THEN 0 ELSE e.size[1]

\* The order the key rules allow in ascending order: a may stand above b.
MayPrecede(field, a, b) ==
    CASE field = "name" -> LoweredLE(a, b)
      [] field = "date" -> DateOf(a) <= DateOf(b)
      [] field = "size" ->
             \/ a.type = "dir"
             \/ a.type = "file" /\ b.type = "file" /\ BytesOf(a) <= BytesOf(b)
      [] OTHER ->
             \/ a.type = "dir" /\ b.type = "file"
             \/ a.type = b.type /\ LoweredLE(a, b)

Tie(field, a, b) == MayPrecede(field, a, b) /\ MayPrecede(field, b, a)

\* C11: sorting is stable: the entries whose key equals that of a given
\* entry stand in the rendered list in their order of arrival, for every
\* sort field and both directions.
C11_SortStable ==
    \A i \in 1..Len(searchItems) :
        SelectSeq(rendered, LAMBDA e : Tie(sortField, e, searchItems[i]))
            = SelectSeq(searchItems, LAMBDA e : Tie(sortField, e, searchItems[i]))

\* Sorted by name, descending: "a" arrived before "A" and stays before it,
\* below "B".
C11_Witness ==
    /\ sortField = "name"
    /\ ~sortAscending
    /\ Len(searchItems) = 3
    /\ searchItems[1].name = <<97>>
    /\ searchItems[2].name = <<66>>
    /\ searchItems[3].name = <<65>>
    /\ rendered = <<searchItems[2], searchItems[1], searchItems[3]>>

\* ------------------------------------------------------- controller claims
\* C12: a change of the sort field or of the sort direction starts no
\* listing session and leaves the held entries (the accumulated listing and
\* the search results) as they are.
C12_SortChangeInMemory ==
    [][(sortField' # sortField \/ sortAscending' # sortAscending) =>
          /\ nThreads' = nThreads
          /\ allLoaded' = allLoaded
          /\ searchItems' = searchItems]_vars

\* C20: applying a filter and clearing a filter leave the back stack and
\* the forward stack unchanged.
C20_FilterKeepsHistory ==
    [][((\E fails \in BOOLEAN, items \in SearchResults : OnSearch(fails, items))
            \/ ClearSearch)
          => UNCHANGED <<backStack, forwardStack>>]_vars

\* Search results are shown in a folder reached by going back, so that both
\* stacks hold a path.
C20_Witness ==
    /\ searchHeld
    /\ Len(rendered) = 2
    /\ Len(backStack) = 1
    /\ Len(forwardStack) = 1

\* A step that starts a load-more session: a new session with offset > 0.
LoadMoreStarts == nThreads' = nThreads + 1 /\ threads'[nThreads + 1].offset > 0

\* C13: a load-more session is started only in a state where hasMore is
\* true and no listing session is loading: the loading flag is clear and no
\* session's thread is streaming uncancelled.
C13_LoadMoreOnlyWhenIdle ==
    [][LoadMoreStarts =>
          /\ hasMoreItems
          /\ ~isLoading
          /\ \A s \in Sessions : ~Active(s)]_vars

C13_FlagsOnly ==
    [][LoadMoreStarts => hasMoreItems /\ ~isLoading]_vars

\* ---------------------------------------------------- stream_files claims
\* The lines of the response the callback was invoked for, in call order.
CalledLines == [i \in 1..Len(sfCalls) |-> sfCalls[i][1]]

\* The lines read so far that are of the given kind.
ReadLines(kind) == {i \in 1..sfPos : sfLines[i] = kind}

\* C14: a line with an error field is terminal: the error is returned, the
\* error line is not passed to the callback, and no item after it is.
C14_ErrorLineTerminal ==
    /\ \A i \in 1..Len(sfCalls) :
          \A j \in 1..CalledLines[i] : sfLines[j] # "error"
    /\ (sfPc = "done" /\ ReadLines("error") # {} => sfError # "none")

Increasing(seq) == \A i, j \in 1..Len(seq) : i < j => seq[i] < seq[j]

\* The callback stopped the stream or the cap was reached.
StoppedEarly ==
    /\ Len(sfCalls) > 0
    /\ \/ sfCalls[Len(sfCalls)][2] = "False"
       \/ sfMax >= 1 /\ Len(sfCalls) >= sfMax

\* C17: a malformed line is skipped without aborting the stream: with a
\* callback, the item lines read so far, before and after malformed lines,
\* were all handed to the callback, in order, and a malformed line leaves
\* no error: an error is returned only for an error line or an exception,
\* and a call that returns without one and was not stopped read every line.
C17_BadLineSkipped ==
    /\ Increasing(CalledLines)
    /\ (sfHasCallback => {CalledLines[i] : i \in 1..Len(sfCalls)} = ReadLines("item"))
    /\ (sfError = "server" => ReadLines("error") # {})
    /\ (sfPc = "done" /\ sfError = "none" /\ ~StoppedEarly => sfPos = Len(sfLines))

\* An item, a malformed line and an item: both items were delivered and no
\* error is returned.
C17_Witness ==
    /\ sfPc = "done"
    /\ sfLines = <<"item", "bad", "item">>
    /\ CalledLines = <<1, 3>>
    /\ sfError = "none"
    /\ ~sfHasMore

\* C18 as claimed: the callback is invoked once per record in stream order
\* and never again after it returned a falsy value (False or None) or after
\* limit items.
C18_StopsOnFalsy ==
    /\ Increasing(CalledLines)
    /\ \A i \in 1..Len(sfCalls) :
          /\ sfLines[CalledLines[i]] = "item"
          /\ (i < Len(sfCalls) => sfCalls[i][2] = "True")
    /\ (sfMax >= 1 => Len(sfCalls) <= sfMax)

\* C18 as amended: the callback is invoked once per record in stream
\* order; it is never invoked again after it returned False or after limit
\* items; a return value other than False, None included, does not stop
\* the stream: every item line read was handed to the callback.
C18_StopsOnFalse ==
    /\ Increasing(CalledLines)
    /\ \A i \in 1..Len(sfCalls) :
          /\ sfLines[CalledLines[i]] = "item"
          /\ (i < Len(sfCalls) => sfCalls[i][2] # "False")
    /\ (sfMax >= 1 => Len(sfCalls) <= sfMax)
    /\ (sfHasCallback => {CalledLines[i] : i \in 1..Len(sfCalls)} = ReadLines("item"))
    /\ (sfPc = "loop" => ~StoppedEarly)

\* The callback returned None and was invoked again, then returned False,
\* and the third item was never read.
C18_Witness ==
    /\ sfPc = "done"
    /\ sfLines = <<"item", "item", "item">>
    /\ sfCalls = <<(<<1, "None">>), (<<2, "False">>)>>
    /\ sfPos = 2

\* C19: the has_more that stream_files returns is true if the callback
\* requested a stop or the max-items threshold was reached, and false if
\* the response was read to its end.
C19_HasMoreValue ==
    (sfPc = "done" /\ sfError # "transport") =>
        /\ (sfHasMore <=> StoppedEarly)
        /\ (~StoppedEarly => sfPos = Len(sfLines))

\* A response of three items read to its end without a cap.
C19_Witness ==
    /\ sfPc = "done"
    /\ sfError = "none"
    /\ sfMax = 0
    /\ Len(sfCalls) = 3
    /\ sfPos = Len(sfLines)
    /\ ~sfHasMore

\* ------------------------------------------------------------ error claims
\* The entries the user sees: the rows of the current mode's view while it
\* is visible.
Displayed == IF viewShown THEN rendered ELSE <<>>

\* The widget's session ended with an error after batches were received,
\* and every signal has been delivered.
ErroredAfterBatches ==
    /\ loaderThread # 0
    /\ Settled
    /\ threads[loaderThread].error
    /\ ~threads[loaderThread].cancelled
    /\ Len(allLoaded) > 0

\* C15: when a listing session ends with a server-side error after some
\* batches were received, the entries received before the error remain
\* displayed and an error indicator is shown.
C15_PartialResultsKept ==
    ErroredAfterBatches =>
        /\ loadingLabel = "error"
        /\ Displayed = allLoaded

\* The UI thread delivers an error signal to _on_load_error.
ErrorDelivered ==
    /\ uiQueue # <<>>
    /\ Head(uiQueue).kind = "error"
    /\ uiQueue' = Tail(uiQueue)

\* C16: cancellation is never surfaced as an error: no error signal of a
\* cancelled session is delivered to the controller.
C16_CancelIsNoError ==
    [][ErrorDelivered => ~threads[Head(uiQueue).sid].cancelled]_vars

\* ----------------------------------------------------------- filter claims
\* Every row of a is a row of b.
RowsWithin(a, b) == \A i \in 1..Len(a) : \E j \in 1..Len(b) : a[i] = b[j]

RECURSIVE SplitSlash(_, _)
SplitSlash(str, seg) ==
    IF str = <<>> THEN <<seg>>
    ELSE IF Head(str) = "/" THEN <<seg>> \o SplitSlash(Tail(str), <<>>)
    ELSE SplitSlash(Tail(str), Append(seg, Head(str)))

RECURSIVE JoinSlash(_)
JoinSlash(segs) ==
    IF Len(segs) = 0 THEN <<>>
    ELSE IF Len(segs) = 1 THEN segs[1]
    ELSE segs[1] \o <<"/">> \o JoinSlash(Tail(segs))

\* A path with its last segment removed; the parent of a top-level entry
\* is "/".
WithoutLastSegment(path) ==
    LET segs == SplitSlash(path, <<>>)
        rest == JoinSlash(SubSeq(segs, 1, Len(segs) - 1))
    IN  IF rest = <<>> THEN Root ELSE rest

\* C23: navigate_to(p) with p different from the current path pushes the
\* prior path on the back stack and navigate_to of the identical path
\* pushes nothing; go_back makes the top of the back stack the current path
\* and removes it, so that a go_back following a navigate_to returns the
\* current path and the back stack to their values before it.
C23_NavigateThenBack ==
    [][/\ \A p \in Paths :
              NavigateTo(p) =>
                  /\ currentPath' = p
                  /\ backStack' = IF p # currentPath THEN Append(backStack, currentPath)
                                  ELSE backStack
       /\ (GoBack /\ backStack # <<>>) =>
              Append(backStack', currentPath') = backStack]_vars

\* "/" -> "/a" -> "/a/b", then go_back: the current path is "/a" again
\* and the back stack holds "/" alone, as before the second navigation.
C23_Witness ==
    /\ currentPath = <<"/", "a">>
    /\ backStack = <<Root>>
    /\ forwardStack = <<(<<"/", "a", "/", "b">>)>>

\* C22: go_up navigates to the current path with its last "/"-delimited
\* segment removed, never produces an empty path (the parent of a
\* top-level entry is "/"), and is a no-op at the root "/".
C22_GoUpParent ==
    [][GoUp =>
          IF currentPath = Root THEN UNCHANGED vars
          ELSE /\ currentPath' = WithoutLastSegment(currentPath)
               /\ currentPath' # <<>>]_vars

\* After a navigation from "/" to "/a/b", go_up from "/a/b" and again from
\* "/a" arrived at "/".
C22_Witness ==
    /\ currentPath = Root
    /\ backStack = <<Root, (<<"/", "a", "/", "b">>), (<<"/", "a">>)>>

\* ------------------------------------------------------- collection claims
\* C24: on a server whose listing has pairwise distinct paths, the
\* accumulated entries never hold two entries with the same path, after
\* any sequence of load_path, refresh, load-more and view-mode changes and
\* any interleaving of batch deliveries.
C24_NoDuplicatePaths ==
    \A i, j \in 1..Len(allLoaded) : i < j => allLoaded[i].id # allLoaded[j].id

\* C25: on logout the accumulated entries are cleared, and no entry of a
\* session started before the logout is added to the collection or to the
\* display afterwards: while the widget is logged out no step adds an
\* entry or a row.
C25_LogoutClears ==
    [][/\ (Logout => allLoaded' = <<>>)
       /\ (LoggedOut /\ LoggedOut' =>
              Len(allLoaded') <= Len(allLoaded) /\ Len(rendered') <= Len(rendered))
       /\ (LoggedOut /\ Deliver => allLoaded' = allLoaded /\ rendered' = rendered)]_vars

\* ------------------------------------------------ thumbnail failure claims
\* The requests for a key waiting in a pending queue.
QueuedIn(pending, k) == Cardinality({i \in 1..Len(pending) : pending[i].key = k})

\* C26: a failed or empty thumbnail fetch removes the key's in-flight
\* marker and frees its slot (the fetches running afterwards are those
\* running before, less this one, plus those the handler started) without
\* storing anything in the cache; it schedules no retry: the key is
\* neither queued nor fetched afterwards; and the key is requestable
\* again: a request for it made next is queued or started as a new fetch.
C26_FailedFetchDropped ==
    [][\A k \in Keys :
          /\ OnFinished(k, FALSE) =>
                /\ thumbCache' = thumbCache
                /\ iconSet' = iconSet
                /\ k \notin thumbInflight'
                /\ thumbActive' = thumbActive - 1 + Len(lastOp'.started)
                /\ netReplies'[k] = 0
                /\ QueuedIn(thumbPending', k) = 0
                /\ ~CacheHit(k, thumbCache')
                /\ ~IsDuplicate(k, thumbInflight')
          /\ (/\ lastOp.op = "finished"
              /\ lastOp.outcome = "dropped"
              /\ lastOp.key = k
              /\ \E v \in BOOLEAN : LoadVisibleThumbnails(k, v)) =>
                /\ lastOp'.outcome = "queued"
                /\ k \in thumbInflight'
                /\ netReplies'[k] + QueuedIn(thumbPending', k) = 1]_vars

\* A fetch failed with requests waiting: the freed slot went to the next
\* pending request, and the failed key is neither cached nor marked.
C26_Witness ==
    /\ lastOp.op = "finished"
    /\ lastOp.outcome = "dropped"
    /\ Len(lastOp.started) = 1
    /\ lastOp.key \notin thumbCache
    /\ lastOp.key \notin thumbInflight
    /\ thumbActive = MaxConcurrent

\* C27: a thumbnail completion is applied to every currently displayed item
\* whose path is the key's path and to no other item; when no displayed
\* item matches (the item was removed by a navigation before the
\* completion), it changes no displayed item; the image is stored in the
\* cache in both cases.
C27_AppliedToMatchingItems ==
    [][\A k \in Keys :
          OnFinished(k, TRUE) =>
              /\ thumbCache' = thumbCache \cup {k}
              /\ iconItems' = iconItems
              /\ iconSet' = iconSet \cup ({k} \cap iconItems)
              /\ (k \notin iconItems => iconSet' = iconSet)]_vars

\* A completion for an item that a navigation removed: the image is in the
\* cache, the items displayed now have other paths, one of them with its
\* thumbnail, and none took the image.
C27_Witness ==
    /\ lastOp.op = "finished"
    /\ lastOp.outcome = "stored"
    /\ lastOp.key \in thumbCache
    /\ lastOp.key \notin iconItems
    /\ lastOp.key \notin iconSet
    /\ iconSet # {}
    /\ iconItems \ iconSet # {}

\* ------------------------------------------------------ scheduling claims
\* The request for key k stands in the queue with no background request
\* ahead of it.
AheadOfBackground(pending, k) ==
    \E i \in 1..Len(pending) :
        /\ pending[i].key = k
        /\ \A j \in 1..(i - 1) : pending[j].vis

\* C28: an item that scrolls into the viewport while its thumbnail is not
\* cached has its fetch started ahead of the background requests queued
\* earlier, also when its own request was queued earlier as a background
\* request: after the scan's request for it, its fetch is running or its
\* request waits with no background request ahead of it.
C28_VisibleBumped ==
    [][\A k \in Keys :
          (LoadVisibleThumbnails(k, TRUE) /\ ~CacheHit(k, thumbCache)) =>
              \/ netReplies'[k] > 0
              \/ AheadOfBackground(thumbPending', k)]_vars

\* C29: a navigation gives the thumbnail scheduler fresh state: after
\* load_path has cleared the icon list, the pending queue and the in-flight
\* set hold no request made for an item of the previous folder, so that no
\* fetch for such an item is started afterwards.
C29_FreshStateOnNavigation ==
    [][ViewCleared => thumbPending' = <<>> /\ thumbInflight' = {}]_vars

\* ------------------------------------------------------- load-more claims
\* The scroll slot of the current view runs for a value past 80% of the
\* scroll range.
ScrolledNearBottom == OnTableScroll(TRUE) \/ OnIconScroll(TRUE)

\* C30: when the rendered list is scrolled past 80% of its range while
\* hasMore is true and no session is loading, a new listing session is
\* started for the current path with the number of accumulated entries as
\* its offset and the load-more page size as its limit, in the list view
\* as well as in the icon view: in every such state the scroll slot is
\* able to take that step.
C30_ScrollStartsLoadMore ==
    (hasMoreItems /\ ~isLoading /\ nThreads < MaxSessions) =>
        ENABLED (/\ ScrolledNearBottom
                 /\ nThreads' = nThreads + 1
                 /\ loaderThread' = nThreads + 1
                 /\ threads'[nThreads + 1].offset = Len(allLoaded)
                 /\ threads'[nThreads + 1].limit = LoadMoreLimit
                 /\ currentPath' = currentPath)

\* C31: when the visible-range scan requests a thumbnail for a displayed
\* item of the prefetch buffer (in the expanded rectangle but outside the
\* viewport) that is neither cached nor in flight, the request is enqueued
\* with visible priority: after the request its fetch is running or it
\* stands at the front of the pending queue.
C31_BufferItemAtFront ==
    [][\A k \in Keys :
          (/\ LoadVisibleThumbnails(k, FALSE)
           /\ ~CacheHit(k, thumbCache)
           /\ ~IsDuplicate(k, thumbInflight)) =>
              \/ netReplies'[k] > 0
              \/ /\ thumbPending' # <<>>
                 /\ Head(thumbPending').key = k]_vars

\* C32: after an image is saved from the viewer, the refresh updates that
\* file's thumbnail: when the file is rendered again, a new fetch for its
\* path is queued or started (unless one is waiting or running already),
\* also when a thumbnail for the path was cached before the save.
C32_SavedImageRefetched ==
    [][\A k \in Keys :
          (/\ lastOp.op = "saved"
           /\ lastOp.key = k
           /\ ~IsDuplicate(k, thumbInflight)
           /\ \E v \in BOOLEAN : RenderIconsChunk(k, v)) =>
              /\ lastOp'.outcome = "queued"
              /\ netReplies'[k] + QueuedIn(thumbPending', k) = 1]_vars

\* C33: the thumbnail pump is work-conserving: between handlers, when the
\* pending queue is not empty the fetches in flight number the concurrency
\* cap; and each completion starts exactly one queued request when the
\* queue is not empty and none when it is empty: it never starts two, and
\* when it started none it left no request waiting.
C33_WorkConserving ==
    /\ (thumbPending # <<>> =>
            thumbActive = MaxConcurrent /\ Cardinality(InFlight) = MaxConcurrent)
    /\ (lastOp.op = "finished" =>
            /\ Len(lastOp.started) <= 1
            /\ (lastOp.started = <<>> => thumbPending = <<>>))

\* A completion took the one request that was waiting: the queue is empty
\* and the cap is reached again.
C33_Witness ==
    /\ lastOp.op = "finished"
    /\ Len(lastOp.started) = 1
    /\ thumbPending = <<>>
    /\ thumbActive = MaxConcurrent

\* ------------------------------------------------------- signal claims
\* The signals session s has emitted, in order (under SpecEmit the queue
\* keeps them all).
SignalsOf(s) == SelectSeq(uiQueue, LAMBDA m : m.sid = s)

TerminalsOf(s) == SelectSeq(SignalsOf(s), LAMBDA m : m.kind # "items")

\* C34: a listing session that is never cancelled emits exactly one
\* terminal signal, load_complete or error and never both, after all of
\* its item batches; a session whose stream returned an error emits error
\* and no load_complete.
C34_OneTerminalSignal ==
    \A s \in Sessions :
        ~threads[s].cancelled =>
            /\ Len(TerminalsOf(s)) <= 1
            /\ (threads[s].pc = "done" => Len(TerminalsOf(s)) = 1)
            /\ (TerminalsOf(s) # <<>> =>
                    /\ threads[s].pc = "done"
                    /\ SignalsOf(s)[Len(SignalsOf(s))].kind # "items"
                    /\ TerminalsOf(s)[1].kind =
                           IF threads[s].error THEN "error" ELSE "complete")

\* A session emitted two batches and then, its stream having reported an
\* error, the error signal.
C34_Witness ==
    /\ ~threads[1].cancelled
    /\ threads[1].error
    /\ Len(SignalsOf(1)) = 3
    /\ SignalsOf(1)[3].kind = "error"

\* The UI thread delivers a terminal signal of a session that is no longer
\* the widget's session.
StaleTerminalDelivered ==
    /\ uiQueue # <<>>
    /\ Head(uiQueue).kind # "items"
    /\ Head(uiQueue).sid # loaderThread
    /\ uiQueue' = Tail(uiQueue)

\* C35: a terminal signal of a superseded session, delivered after
\* load_path or load-more has started a newer session, changes none of the
\* controller's isLoading, hasMore and complete flags; while the newest
\* session is still streaming, isLoading stays true.
C35_StaleTerminalIgnored ==
    [][StaleTerminalDelivered =>
          /\ UNCHANGED <<isLoading, hasMoreItems, loadComplete>>
          /\ (IsRunning(loaderThread) => isLoading')]_vars

\* The session load_path started has completed without error and its
\* signals have all been delivered.
LoadPathCompleted ==
    /\ loaderThread # 0
    /\ Completed(loaderThread)
    /\ threads[loaderThread].offset = 0
    /\ ~threads[loaderThread].error

\* C36: once a listing session started by load_path has completed without
\* error, the loading indicator is no longer shown and the view of the
\* current mode is shown, whatever the folder's size, an empty folder
\* included.
C36_IndicatorGoneOnComplete ==
    LoadPathCompleted => loadingLabel = "hidden" /\ viewShown

\* The same for folders that deliver at least one batch.
C36_NonEmptyFolder ==
    LoadPathCompleted /\ folderSize > 0 => loadingLabel = "hidden" /\ viewShown

\* C37: the controller's flags stay consistent: in every reachable state
\* the complete flag and the hasMore flag are not both true, in particular
\* after a load-more session has ended with an error.
C37_CompleteExcludesHasMore == ~(loadComplete /\ hasMoreItems)

\* A step of _load_thumbnail_async that puts a request into the queue.
RequestIssued ==
    /\ \E key \in Keys, is_visible \in BOOLEAN :
           RenderIconsChunk(key, is_visible) \/ LoadVisibleThumbnails(key, is_visible)
    /\ lastOp'.outcome = "queued"

\* From some point on no request is issued.
FinitelyManyRequests == <>[][~RequestIssued]_vars

\* A request leaves the queue only by being started: its GET is issued.
LeavesQueueByStart ==
    \A k \in Keys :
        QueuedIn(thumbPending', k) < QueuedIn(thumbPending, k) =>
            \E i \in 1..Len(lastOp'.started) : lastOp'.started[i].key = k

\* C38: provided every started fetch eventually finishes and only finitely
\* many requests are issued, every request that enters the pending queue
\* is eventually started and its in-flight marker is eventually removed; a
\* queued request, overtaken or not, is never dropped from the queue.
C38_QueuedEventuallyServed ==
    /\ [][LeavesQueueByStart]_vars
    /\ FinitelyManyRequests =>
           \A k \in Keys :
               /\ (QueuedIn(thumbPending, k) > 0) ~> (netReplies[k] > 0)
               /\ (QueuedIn(thumbPending, k) > 0) ~> (k \notin thumbInflight)

\* A completion started a background request that had waited in the queue
\* while a request issued for a visible item was served.
C38_Witness ==
    /\ lastOp.op = "finished"
    /\ Len(lastOp.started) = 1
    /\ ~lastOp.started[1].vis
    /\ \E k \in thumbCache : k # lastOp.started[1].key
    /\ thumbPending = <<>>

\* The step clears the loading flag.
LeavesLoading == isLoading /\ ~isLoading'

\* The UI thread delivers a load_complete or an error signal.
TerminalDelivered ==
    /\ uiQueue # <<>>
    /\ Head(uiQueue).kind # "items"
    /\ uiQueue' = Tail(uiQueue)

\* From some point on the user issues no operation.
NoFurtherOperation == <>[][~LoadPath]_vars

\* C39: after load_path with an API client, if the stream ends or fails
\* and the user issues no further operation, the controller eventually
\* leaves the loading state, and does so through load_complete or error;
\* load_path itself never waits for a previous loader thread: it can run
\* whatever that thread is doing.
C39_EventuallyNotLoading ==
    /\ [][LeavesLoading => TerminalDelivered]_vars
    /\ [](nThreads < MaxLoadPathSessions => ENABLED LoadPath)
    /\ NoFurtherOperation => <>[]~isLoading

\* The refreshed session has completed and the controller has left the
\* loading state while the thread of the session it replaced has not
\* terminated.
C39_Witness ==
    /\ nThreads = 2
    /\ threads[1].cancelled
    /\ threads[1].pc # "done"
    /\ threads[2].pc = "done"
    /\ uiQueue = <<>>
    /\ ~isLoading

====
